---- MODULE Spec2Model ----
(***************************************************************************)
(* Model of app.py: the Flask handler api_ner, the module-level loading of *)
(* the spaCy model, and the page's script (escapeHtml, renderHighlighted,  *)
(* renderEntitiesTable, analyzeBtn.onclick, clearBtn.onclick).             *)
(*                                                                         *)
(* Strings are sequences of one-character strings, so that slicing,        *)
(* stripping and escaping are computed character by character.             *)
(***************************************************************************)
EXTENDS Integers, Sequences, FiniteSets, TLC

VARIABLES
    \* ---- server process (module level of app.py and api_ner)
    startup,      \* position of the module-level code: "load", "download", "reload", "serving", "dead"
    nlp,          \* the global model handle: "unbound" or "loaded"
    nlpBinds,     \* history: number of assignments to nlp so far
    served,       \* history: the last request api_ner handled, with its reply
    \* ---- the page (DOM and analyzeBtn.onclick)
    inputText,    \* inputText.value
    btn,          \* analyzeBtn: [disabled, text]
    errorDiv,     \* errorDiv.textContent
    highlight,    \* content of the highlight panel
    entitiesDiv,  \* content of the entities panel
    flight,       \* the running instances of the async click handler, each with its fetch
    hist,         \* history: the last operation, and the arguments of the handler's last render
    \* ---- a single call of renderHighlighted
    rpc,          \* "ready" before the call, "done" after it
    given,        \* the array handed to renderHighlighted, as it was before the call
    arr           \* the same array object after the call

vars == <<startup, nlp, nlpBinds, served, inputText, btn, errorDiv, highlight,
          entitiesDiv, flight, hist, rpc, given, arr>>

serverVars == <<startup, nlp, nlpBinds, served>>
pageVars == <<inputText, btn, errorDiv, highlight, entitiesDiv, flight, hist>>
callVars == <<rpc, given, arr>>

(***************************************************************************)
(* Bounds                                                                  *)
(***************************************************************************)
MaxLen == 3     \* longest text drawn as an input
MaxEnts == 2    \* longest entity list drawn as an input

(***************************************************************************)
(* Strings                                                                 *)
(***************************************************************************)
Min(a, b) == IF a < b THEN a ELSE b

\* A text with markup characters, an ampersand, a blank and plain letters.
SampleText == <<"A", "&", "<", "b", ">", " ", "&", "c", "<">>

\* The input texts: every piece of SampleText of at most MaxLen characters.
Texts ==
    {SubSeq(SampleText, p[1], p[2]) :
        p \in {q \in (1..Len(SampleText)) \X (0..Len(SampleText)) :
                  q[2] >= q[1] - 1 /\ q[2] - q[1] + 1 <= MaxLen}}

\* JavaScript String.prototype.slice(a, b) for 0 <= a, 0 <= b.
slice(str, a, b) ==
    LET from == Min(a, Len(str))
        to == Min(b, Len(str))
    IN IF from >= to THEN <<>> ELSE SubSeq(str, from + 1, to)

\* str.replace(/c/g, by): every occurrence of the character c becomes by.
RECURSIVE replaceAll(_, _, _)
replaceAll(str, c, by) ==
    IF str = <<>> THEN <<>>
    ELSE (IF Head(str) = c THEN by ELSE <<Head(str)>>) \o replaceAll(Tail(str), c, by)

AMP == <<"&", "a", "m", "p", ";">>
LT == <<"&", "l", "t", ";">>
GT == <<"&", "g", "t", ";">>

escapeHtml(str) ==
    replaceAll(replaceAll(replaceAll(str, "&", AMP), "<", LT), ">", GT)

(***************************************************************************)
(* Entity spans                                                            *)
(***************************************************************************)
ORG == <<"O", "R", "G">>
NORP == <<"N", "O", "R", "P">>
Labels == {ORG, NORP}

\* The spans 0 <= start < end <= length of a text, each with its substring.
Spans(text) ==
    {[text |-> slice(text, p[1], p[2]), label |-> l, start |-> p[1], end |-> p[2]] :
        p \in {q \in (0..Len(text)) \X (0..Len(text)) : q[1] < q[2]}, l \in Labels}

EntityLists(text) == UNION {[1..n -> Spans(text)] : n \in 0..MaxEnts}

\* The scenario of two overlapping spans {0,5} and {3,8}.
OverlapScenario ==
    << [text |-> slice(SampleText, 0, 5), label |-> ORG, start |-> 0, end |-> 5],
       [text |-> slice(SampleText, 3, 8), label |-> NORP, start |-> 3, end |-> 8] >>

(***************************************************************************)
(* renderHighlighted                                                       *)
(***************************************************************************)
\* entities.sort((a,b)=>a.start - b.start): stable, ascending by start.
RECURSIVE insertByStart(_, _)
insertByStart(sorted, e) ==
    IF sorted = <<>> THEN <<e>>
    ELSE IF sorted[Len(sorted)].start <= e.start THEN Append(sorted, e)
    ELSE Append(insertByStart(SubSeq(sorted, 1, Len(sorted) - 1), e), sorted[Len(sorted)])

RECURSIVE sortRec(_)
sortRec(a) ==
    IF a = <<>> THEN <<>>
    ELSE insertByStart(sortRec(SubSeq(a, 1, Len(a) - 1)), a[Len(a)])

sortSkipped(entities) == entities

sortByStart(entities) == sortRec(entities)

\* COLOR_MAP[label] || '#f2f9ff'
COLOR_MAP(label) == IF label = ORG THEN "#e8fff0" ELSE "#f2f9ff"

Plain(str) == [kind |-> "plain", s |-> str, label |-> <<>>, bg |-> ""]
Mark(str, label) == [kind |-> "mark", s |-> str, label |-> label, bg |-> COLOR_MAP(label)]

\* out += str, for a string without markup: nothing is added by an empty one.
emitPlain(out, str) == IF str = <<>> THEN out ELSE Append(out, Plain(str))

\* if(cursor < e.start) out += escapeHtml(text.slice(cursor, e.start))
gapOf(text, cursor, e) ==
    IF cursor < e.start THEN escapeHtml(slice(text, cursor, e.start)) ELSE <<>>

\* <mark ...>${span} <span class="label">[${label}]</span></mark>
markOf(text, e) == Mark(escapeHtml(slice(text, e.start, e.end)), e.label)

\* cursor = e.end
nextCursorForward(cursor, e) == IF e.end > cursor THEN e.end ELSE cursor

nextCursor(cursor, e) == e.end

\* if(cursor < text.length) out += escapeHtml(text.slice(cursor))
tailDropped(text, cursor) == <<>>

tailOf(text, cursor) ==
    IF cursor < Len(text) THEN escapeHtml(slice(text, cursor, Len(text))) ELSE <<>>

\* The for loop over the sorted array, from its i-th element on.
RECURSIVE walk(_, _, _, _, _)
walk(text, entities, i, cursor, out) ==
    IF i > Len(entities) THEN emitPlain(out, tailOf(text, cursor))
    ELSE LET e == entities[i]
         IN walk(text, entities, i + 1, nextCursor(cursor, e),
                 Append(emitPlain(out, gapOf(text, cursor, e)), markOf(text, e)))

TextContent(text) == [mode |-> "text", text |-> text, segs |-> <<>>]
InnerHTML(segs) == [mode |-> "html", text |-> <<>>, segs |-> segs]

\* The panel after the call, and the array after the call (sort is in place).
renderHighlighted(text, entities) ==
    IF Len(entities) = 0
    THEN [highlight |-> TextContent(text), entities |-> entities]
    ELSE LET sorted == sortByStart(entities)
         IN [highlight |-> InnerHTML(walk(text, sorted, 1, 0, <<>>)),
             entities |-> sorted]

(***************************************************************************)
(* renderEntitiesTable                                                     *)
(***************************************************************************)
Message(msg) == [mode |-> "msg", msg |-> msg, rows |-> <<>>]
Table(rows) == [mode |-> "table", msg |-> "", rows |-> rows]

\* <tr><td>${escapeHtml(e.text)}</td><td>${escapeHtml(e.label)}</td><td>${e.start}-${e.end}</td></tr>
rowOf(e) ==
    [text |-> escapeHtml(e.text), label |-> escapeHtml(e.label),
     start |-> e.start, end |-> e.end]

renderEntitiesTable(entities) ==
    IF Len(entities) = 0 THEN Message("No entities detected.")
    ELSE Table([i \in 1..Len(entities) |-> rowOf(entities[i])])

(***************************************************************************)
(* The extraction model, seen through its call nlp(text) and doc.ents      *)
(***************************************************************************)
\* The texts that requests carry: empty, blank, and with content.
ReqTexts == {<<>>, <<" ">>, <<" ", " ">>, <<"&">>, <<"A", "&">>, <<" ", "b">>, <<"<", " ">>}

\* The texts the user of the page types.
PageTexts == {<<>>, <<"&">>, <<"A", "&">>}

Ent(e) == [text |-> e.text, label_ |-> e.label, start_char |-> e.start, end_char |-> e.end]

Disjoint(a, b) == a.end <= b.start \/ b.end <= a.start

NonOverlapping(list) ==
    \A i, j \in 1..Len(list) : i # j => Disjoint(list[i], list[j])

\* doc.ents for a text: pairwise non-overlapping spans of the text, in whatever
\* order the model discovers them.
nlpCall(text) ==
    {[i \in 1..Len(list) |-> Ent(list[i])] :
        list \in {l \in UNION {[1..n -> Spans(text)] : n \in 0..Len(text)} :
                    NonOverlapping(l)}}

(***************************************************************************)
(* api_ner                                                                 *)
(***************************************************************************)
JNull == [kind |-> "null", s |-> <<>>, n |-> 0]
JStr(str) == [kind |-> "str", s |-> str, n |-> 0]
JVals ==
    {JNull} \cup {JStr(t) : t \in ReqTexts}
            \cup [kind : {"bool", "num", "arr", "obj"}, s : {<<>>}, n : {0, 1}]

\* A request body: not JSON at all, or a JSON value; an object has n keys other
\* than "text" and, when hasText, a value under "text".
NoJson == [json |-> FALSE, val |-> JNull, hasText |-> FALSE, text |-> JNull]
Value(v) == [json |-> TRUE, val |-> v, hasText |-> FALSE, text |-> JNull]
Object(n, t) ==
    [json |-> TRUE, val |-> [kind |-> "obj", s |-> <<>>, n |-> n], hasText |-> TRUE, text |-> t]
EmptyObject == Value([kind |-> "obj", s |-> <<>>, n |-> 0])
Bodies ==
    {NoJson} \cup {Value(v) : v \in JVals} \cup {Object(n, t) : n \in {0, 1}, t \in JVals}

\* Python truth value of what request.get_json(silent=True) returned.
truthy(body) ==
    /\ body.json
    /\ CASE body.val.kind = "null" -> FALSE
         [] body.val.kind = "bool" -> body.val.n = 1
         [] body.val.kind = "num" -> body.val.n # 0
         [] body.val.kind = "str" -> body.val.s # <<>>
         [] body.val.kind = "arr" -> body.val.n > 0
         [] body.val.kind = "obj" -> body.val.n > 0 \/ body.hasText

\* str.strip(): leading and trailing whitespace removed.
RECURSIVE lstrip(_)
lstrip(str) ==
    IF str # <<>> /\ Head(str) = " " THEN lstrip(Tail(str)) ELSE str

RECURSIVE rstrip(_)
rstrip(str) ==
    IF str # <<>> /\ str[Len(str)] = " " THEN rstrip(SubSeq(str, 1, Len(str) - 1)) ELSE str

strip(str) == rstrip(lstrip(str))

Reply(status, error, entities, called) ==
    [status |-> status, error |-> error, entities |-> entities, called |-> called]

\* entities.append({"text": ent.text, "label": ent.label_, ...}) for ent in doc.ents
entitiesOfSorted(doc) ==
    sortByStart([i \in 1..Len(doc) |->
        [text |-> doc[i].text, label |-> doc[i].label_,
         start |-> doc[i].start_char, end |-> doc[i].end_char]])

entitiesOf(doc) ==
    [i \in 1..Len(doc) |->
        [text |-> doc[i].text, label |-> doc[i].label_,
         start |-> doc[i].start_char, end |-> doc[i].end_char]]

\* data = request.get_json(silent=True) or {}
dataOf(body) == IF truthy(body) THEN body ELSE EmptyObject

\* The handler before it calls the model: "call" with the text to analyse, or the
\* reply it returns at once. data.get on a value that is no dict raises
\* AttributeError, which Flask answers with 500.
validate(body) ==
    LET data == dataOf(body)
    IN IF data.val.kind # "obj"
       THEN [call |-> FALSE, text |-> <<>>, reply |-> Reply(500, "", <<>>, FALSE)]
       ELSE LET text == IF data.hasText THEN data.text ELSE JStr(<<>>)
            IN IF text.kind # "str" \/ strip(text.s) = <<>>
               THEN [call |-> FALSE, text |-> <<>>,
                     reply |-> Reply(400, "No text provided", <<>>, FALSE)]
               ELSE [call |-> TRUE, text |-> text.s, reply |-> Reply(200, "", <<>>, TRUE)]

\* The replies api_ner can give to a body, with the doc the model returned.
api_ner(body) ==
    LET v == validate(body)
    IN IF ~v.call THEN {[doc |-> <<>>, reply |-> v.reply]}
       ELSE IF nlp # "loaded"   \* NameError: the global was never bound
       THEN {[doc |-> <<>>, reply |-> Reply(500, "", <<>>, FALSE)]}
       ELSE {[doc |-> doc, reply |-> Reply(200, "", entitiesOf(doc), TRUE)] :
                doc \in nlpCall(v.text)}

(***************************************************************************)
(* Server process: module-level loading of the model, then requests        *)
(***************************************************************************)
NotServed == [handled |-> FALSE, body |-> NoJson, doc |-> <<>>,
              reply |-> Reply(0, "", <<>>, FALSE)]

\* except Exception as e2: ...; raise
afterFallbackFailureSwallowed == "main"

afterFallbackFailure == "dead"

\* nlp = spacy.load(MODEL) succeeds at the first attempt.
LoadOk ==
    /\ startup = "load"
    /\ nlp' = "loaded" /\ nlpBinds' = nlpBinds + 1
    /\ startup' = "main"
    /\ UNCHANGED <<served, pageVars, callVars>>

\* spacy.load(MODEL) raises: the except branch is entered.
LoadFails ==
    /\ startup = "load"
    /\ startup' = "download"
    /\ UNCHANGED <<nlp, nlpBinds, served, pageVars, callVars>>

\* subprocess.check_call([... "spacy", "download", MODEL]) returns.
DownloadOk ==
    /\ startup = "download"
    /\ startup' = "reload"
    /\ UNCHANGED <<nlp, nlpBinds, served, pageVars, callVars>>

\* check_call raises CalledProcessError.
DownloadFails ==
    /\ startup = "download"
    /\ startup' = afterFallbackFailure
    /\ UNCHANGED <<nlp, nlpBinds, served, pageVars, callVars>>

\* The second nlp = spacy.load(MODEL) succeeds.
ReloadOk ==
    /\ startup = "reload"
    /\ nlp' = "loaded" /\ nlpBinds' = nlpBinds + 1
    /\ startup' = "main"
    /\ UNCHANGED <<served, pageVars, callVars>>

\* The second spacy.load(MODEL) raises.
ReloadFails ==
    /\ startup = "reload"
    /\ startup' = afterFallbackFailure
    /\ UNCHANGED <<nlp, nlpBinds, served, pageVars, callVars>>

\* app.run(host=host, port=port, debug=True) starts serving.
AppRun ==
    /\ startup = "main"
    /\ startup' = "serving"
    /\ UNCHANGED <<nlp, nlpBinds, served, pageVars, callVars>>

\* app.run raises (the port is taken): the exception is printed and re-raised.
AppRunFails ==
    /\ startup = "main"
    /\ startup' = "dead"
    /\ UNCHANGED <<nlp, nlpBinds, served, pageVars, callVars>>

\* One POST /api/ner, from any client, with any body.
ApiNer ==
    /\ startup = "serving"
    /\ \E body \in Bodies : \E r \in api_ner(body) :
           served' = [handled |-> TRUE, body |-> body, doc |-> r.doc, reply |-> r.reply]
    /\ UNCHANGED <<startup, nlp, nlpBinds, pageVars, callVars>>

(***************************************************************************)
(* The page: analyzeBtn.onclick, clearBtn.onclick, and the user            *)
(***************************************************************************)
Response(status, text, json, entities) ==
    [status |-> status, text |-> text, json |-> json, entities |-> entities]
NoResponse == Response(0, "", FALSE, <<>>)

\* jsonify(...) of a reply of api_ner, as the browser receives it.
httpOf(reply) ==
    IF reply.status = 200 THEN Response(200, "", TRUE, reply.entities)
    ELSE IF reply.status = 400
    THEN Response(400, "{\"error\":\"No text provided\"}", TRUE, <<>>)
    ELSE Response(500, "Internal Server Error", FALSE, <<>>)

\* What fetch can resolve to for a request carrying `sent`: the replies of
\* api_ner, a server error with or without a body, a 200 whose body is no JSON.
Responses(sent) ==
    {httpOf(r.reply) : r \in api_ner(Object(0, JStr(sent)))}
        \cup {Response(500, "", FALSE, <<>>), Response(500, "Internal Server Error", FALSE, <<>>),
              Response(200, "", FALSE, <<>>)}

ok(resp) == resp.status >= 200 /\ resp.status <= 299

NetworkError == "Failed to fetch"
SyntaxError == "Unexpected token"

\* err.message || String(err)
errText(message) == IF message # "" THEN message ELSE "Error"

\* errorDiv.textContent = ''; analyzeBtn.disabled = true; analyzeBtn.textContent = 'Analyzing...'
onClickStartKeepsError ==
    [errorDiv |-> errorDiv, btn |-> [disabled |-> TRUE, text |-> "Analyzing..."]]

onClickStart ==
    [errorDiv |-> "", btn |-> [disabled |-> TRUE, text |-> "Analyzing..."]]

\* finally{ analyzeBtn.disabled = false; analyzeBtn.textContent = 'Analyze'; }
finallySkipped == btn

finallyBlock == [disabled |-> FALSE, text |-> "Analyze"]

removeAt(seq, i) == SubSeq(seq, 1, i - 1) \o SubSeq(seq, i + 1, Len(seq))

\* The user types: inputText.value changes.
Edit ==
    /\ \E t \in PageTexts \ {inputText} : inputText' = t
    /\ hist' = [hist EXCEPT !.op = "edit"]
    /\ UNCHANGED <<btn, errorDiv, highlight, entitiesDiv, flight, serverVars, callVars>>

\* A click on Analyze (a disabled button dispatches no click): the handler runs
\* up to its await of fetch, with inputText.value in the request.
Click ==
    /\ ~btn.disabled
    /\ errorDiv' = onClickStart.errorDiv
    /\ btn' = onClickStart.btn
    /\ flight' = Append(flight, [pc |-> "fetch", sent |-> inputText, resp |-> NoResponse])
    /\ hist' = [hist EXCEPT !.op = "click"]
    /\ UNCHANGED <<inputText, highlight, entitiesDiv, serverVars, callVars>>

\* catch(err){ errorDiv.textContent = ... } finally{ ... } of instance i.
Caught(i, message) ==
    /\ errorDiv' = errText(message)
    /\ btn' = finallyBlock
    /\ flight' = removeAt(flight, i)
    /\ hist' = [hist EXCEPT !.op = "failed", !.settled = "failed"]
    /\ UNCHANGED <<inputText, highlight, entitiesDiv, serverVars, callVars>>

\* fetch resolves with a response: the handler goes on to read its body.
FetchResolves ==
    \E i \in 1..Len(flight) :
        /\ flight[i].pc = "fetch"
        /\ \E resp \in Responses(flight[i].sent) :
               flight' = [flight EXCEPT ![i].resp = resp,
                                        ![i].pc = IF ok(resp) THEN "json" ELSE "text"]
        /\ UNCHANGED <<inputText, btn, errorDiv, highlight, entitiesDiv, hist,
                       serverVars, callVars>>

\* fetch rejects (the network fails).
FetchRejects ==
    \E i \in 1..Len(flight) :
        /\ flight[i].pc = "fetch"
        /\ Caught(i, NetworkError)

\* const t = await resp.text(); throw new Error(t || 'Server error')
TextRead ==
    \E i \in 1..Len(flight) :
        /\ flight[i].pc = "text"
        /\ Caught(i, IF flight[i].resp.text # "" THEN flight[i].resp.text ELSE "Server error")

\* const data = await resp.json() rejects: the body is no JSON.
JsonFails ==
    \E i \in 1..Len(flight) :
        /\ flight[i].pc = "json"
        /\ ~flight[i].resp.json
        /\ Caught(i, SyntaxError)

\* resp.json() resolves: renderHighlighted(inputText.value, ents);
\* renderEntitiesTable(ents); then the finally block.
JsonRead ==
    \E i \in 1..Len(flight) :
        /\ flight[i].pc = "json"
        /\ flight[i].resp.json
        /\ LET ents == flight[i].resp.entities
               r == renderHighlighted(inputText, ents)
           IN /\ highlight' = r.highlight
              /\ entitiesDiv' = renderEntitiesTable(r.entities)
              /\ hist' = [op |-> "analyzed", settled |-> "ok", sent |-> flight[i].sent,
                          used |-> inputText, received |-> ents]
        /\ btn' = finallyBlock
        /\ flight' = removeAt(flight, i)
        /\ UNCHANGED <<inputText, errorDiv, serverVars, callVars>>

\* clearBtn.onclick
Clear ==
    /\ highlight' = renderHighlighted(inputText, <<>>).highlight
    /\ entitiesDiv' = renderEntitiesTable(<<>>)
    /\ hist' = [hist EXCEPT !.op = "clear"]
    /\ UNCHANGED <<inputText, btn, errorDiv, flight, serverVars, callVars>>

(***************************************************************************)
(* One call of renderHighlighted on an arbitrary array                     *)
(***************************************************************************)
RenderCall ==
    /\ rpc = "ready"
    /\ LET r == renderHighlighted(inputText, given)
       IN /\ highlight' = r.highlight
          /\ arr' = r.entities
    /\ rpc' = "done"
    /\ UNCHANGED <<given, inputText, btn, errorDiv, entitiesDiv, flight, hist, serverVars>>

(***************************************************************************)
(* Specifications                                                          *)
(***************************************************************************)
ServerStart ==
    startup = "load" /\ nlp = "unbound" /\ nlpBinds = 0 /\ served = NotServed

ServerServing ==
    startup = "serving" /\ nlp = "loaded" /\ nlpBinds = 1 /\ served = NotServed

\* The page after its script ran: the initial render of the textarea's text.
PageLoaded(text) ==
    /\ inputText = text
    /\ btn = [disabled |-> FALSE, text |-> "Analyze"]
    /\ errorDiv = ""
    /\ highlight = renderHighlighted(text, <<>>).highlight
    /\ entitiesDiv = renderEntitiesTable(<<>>)
    /\ flight = <<>>
    /\ hist = [op |-> "load", settled |-> "none", sent |-> <<>>, used |-> <<>>,
               received |-> <<>>]

NoCall == rpc = "none" /\ given = <<>> /\ arr = <<>>

\* The server process from its start, answering any POST.
Init == ServerStart /\ PageLoaded(<<>>) /\ NoCall

Next ==
    \/ LoadOk \/ LoadFails \/ DownloadOk \/ DownloadFails \/ ReloadOk \/ ReloadFails
    \/ AppRun \/ AppRunFails \/ ApiNer

Spec == Init /\ [][Next]_vars

\* The page in a browser, served by a running server.
ClientInit == ServerServing /\ (\E t \in PageTexts : PageLoaded(t)) /\ NoCall

ClientNext ==
    \/ Edit \/ Click \/ FetchResolves \/ FetchRejects \/ TextRead \/ JsonFails
    \/ JsonRead \/ Clear

ClientSpec == ClientInit /\ [][ClientNext]_vars

\* Some instance of the handler waits at one of the given positions.
Pending(pcs) == \E i \in 1..Len(flight) : flight[i].pc \in pcs

\* A pending promise settles and the event loop runs the continuation of the
\* await: weak fairness of each continuation. For the continuations of fetch
\* and of resp.json() the fairness condition is written with its enabling
\* condition spelled out (an instance waits at that await).
FetchSettles ==
    []<>(~Pending({"fetch"})) \/ []<><<FetchResolves \/ FetchRejects>>_vars

JsonSettles ==
    []<>(~Pending({"json"})) \/ []<><<JsonRead \/ JsonFails>>_vars

ClientFairSpec == ClientSpec /\ WF_vars(TextRead) /\ FetchSettles /\ JsonSettles

\* renderHighlighted applied to any text and any array of spans of it.
RenderInit ==
    /\ ServerServing
    /\ \/ \E t \in Texts : PageLoaded(t) /\ given \in EntityLists(t)
       \/ PageLoaded(SampleText) /\ given = OverlapScenario
    /\ rpc = "ready"
    /\ arr = given

RenderNext == RenderCall

RenderSpec == RenderInit /\ [][RenderNext]_vars

(***************************************************************************)
(* Properties of api_ner and of the model handle (Spec)                    *)
(***************************************************************************)
\* A body that supplies a usable text: a JSON object whose "text" is a string
\* with at least one character that is not whitespace.
Usable(body) ==
    /\ body.json /\ body.val.kind = "obj" /\ body.hasText
    /\ body.text.kind = "str"
    /\ \E i \in 1..Len(body.text.s) : body.text.s[i] # " "

\* C1: every POST whose body supplies no usable text is answered 400 with
\* {"error": "No text provided"}, and the model is not invoked for it.
C1_UnusableTextIs400 ==
    served.handled /\ ~Usable(served.body) =>
        /\ served.reply.status = 400
        /\ served.reply.error = "No text provided"
        /\ ~served.reply.called

\* C2: a POST with a usable text is answered 200 with one element per span the
\* model returned, in the model's order, each with that span's text, label,
\* start and end.
C2_EntitiesMirrorDoc ==
    served.handled /\ Usable(served.body) =>
        /\ served.reply.status = 200
        /\ served.reply.called
        /\ Len(served.reply.entities) = Len(served.doc)
        /\ \A i \in 1..Len(served.doc) :
              /\ served.reply.entities[i].text = served.doc[i].text
              /\ served.reply.entities[i].label = served.doc[i].label_
              /\ served.reply.entities[i].start = served.doc[i].start_char
              /\ served.reply.entities[i].end = served.doc[i].end_char

\* A usable text was answered with two spans the model returned out of order.
C2_Witness ==
    /\ served.handled /\ Usable(served.body)
    /\ Len(served.doc) = 2
    /\ served.doc[1].start_char > served.doc[2].start_char
    /\ served.reply.status = 200

\* C7: nlp is bound exactly once, during startup and before any request is
\* served; no request rebinds it; a startup whose load and fallback both fail
\* ends the process, which then serves nothing.
C7_HandleBoundOnce ==
    /\ [](nlpBinds <= 1)
    /\ [](startup \in {"main", "serving"} => nlp = "loaded" /\ nlpBinds = 1)
    /\ [](served.handled => startup = "serving" /\ nlp = "loaded")
    /\ [](nlp = "unbound" => ~served.handled)
    /\ [][startup = "serving" => nlp' = nlp /\ nlpBinds' = nlpBinds]_vars
    /\ [][startup = "dead" => startup' = "dead" /\ served' = served]_vars

\* A request reached the model after the startup bound the handle.
C7_Witness ==
    served.handled /\ served.reply.called /\ nlp = "loaded" /\ nlpBinds = 1

(***************************************************************************)
(* Properties of the page (ClientSpec, ClientFairSpec)                     *)
(***************************************************************************)
\* C3: after a successful Analyze the table shows row i for element i of the
\* response as it was received.
C3_TableInReceivedOrder ==
    hist.op = "analyzed" =>
        IF hist.received = <<>> THEN entitiesDiv.mode = "msg"
        ELSE /\ entitiesDiv.mode = "table"
             /\ Len(entitiesDiv.rows) = Len(hist.received)
             /\ \A i \in 1..Len(hist.received) :
                   /\ entitiesDiv.rows[i].start = hist.received[i].start
                   /\ entitiesDiv.rows[i].end = hist.received[i].end
                   /\ entitiesDiv.rows[i].label = hist.received[i].label

\* The messages the failure of a handler instance can put in the error region.
FailureMessages(h) ==
    IF h.pc = "fetch" THEN {NetworkError}
    ELSE IF h.pc = "json" THEN {SyntaxError}
    ELSE {IF h.resp.text # "" THEN h.resp.text ELSE "Server error"}

\* C6: a failed Analyze puts its message in the error region and leaves the
\* highlighted output and the table as they were; every click clears the error
\* region, so a message shown belongs to the most recent attempt, which failed.
C6_FailureLeavesResults ==
    /\ [][hist'.op = "failed" =>
            /\ highlight' = highlight /\ entitiesDiv' = entitiesDiv
            /\ flight # <<>> /\ errorDiv' \in FailureMessages(flight[1])
            /\ errorDiv' # ""]_vars
    /\ [][hist'.op = "click" =>
            errorDiv' = "" /\ highlight' = highlight /\ entitiesDiv' = entitiesDiv]_vars
    /\ [](errorDiv # "" => flight = <<>> /\ hist.settled = "failed")

\* An attempt failed while results of an earlier one were on display.
C6_Witness ==
    /\ hist.op = "failed" /\ errorDiv = "{\"error\":\"No text provided\"}"
    /\ highlight.mode = "html" /\ entitiesDiv.mode = "table"

\* C9: the text handed to renderHighlighted with a response's entities is the
\* text that was sent in the request that produced them.
C9_RenderedTextIsSentText ==
    hist.op = "analyzed" => hist.used = hist.sent

\* C10: the button is disabled exactly while a request is in flight, at most
\* one request is in flight, and after every click the button is eventually
\* enabled again with the label 'Analyze'.
C10_ButtonGuardsOneRequest ==
    /\ [](Len(flight) <= 1)
    /\ [](btn.disabled <=> flight # <<>>)
    /\ [](btn.text = IF flight # <<>> THEN "Analyzing..." ELSE "Analyze")
    /\ (btn.disabled ~> (~btn.disabled /\ btn.text = "Analyze"))

\* A click has settled with a failure and the button is usable again.
C10_Witness ==
    hist.settled = "failed" /\ hist.op = "failed" /\ ~btn.disabled /\ btn.text = "Analyze"

(***************************************************************************)
(* Properties of renderHighlighted (RenderSpec)                            *)
(***************************************************************************)
EscChar(c) ==
    IF c = "&" THEN AMP ELSE IF c = "<" THEN LT ELSE IF c = ">" THEN GT ELSE <<c>>

\* The escaped form of a text, character by character.
RECURSIVE Escaped(_)
Escaped(str) == IF str = <<>> THEN <<>> ELSE EscChar(Head(str)) \o Escaped(Tail(str))

\* The output with the highlight markup and the labels removed.
RECURSIVE Stripped(_)
Stripped(segs) == IF segs = <<>> THEN <<>> ELSE Head(segs).s \o Stripped(Tail(segs))

IsMark(seg) == seg.kind = "mark"

\* The position of the k-th highlight in the output.
MarkPos(segs, k) ==
    CHOOSE n \in 1..Len(segs) :
        IsMark(segs[n]) /\ Cardinality({m \in 1..n : IsMark(segs[m])}) = k

IsSortedByStart(list) == \A i \in 1..(Len(list) - 1) : list[i].start <= list[i + 1].start

DistinctStarts(list) == \A i, j \in 1..Len(list) : i # j => list[i].start # list[j].start

\* Every ordering of the elements of a list.
Arrangements(list) ==
    {[i \in 1..Len(list) |-> list[f[i]]] : f \in Permutations(1..Len(list))}

\* C4 as stated: rendering a list gives the output of rendering the same spans
\* sorted ascending by start, whichever sorted arrangement that is.
C4_OrderInsensitive ==
    rpc = "done" =>
        \A p \in Arrangements(given) :
            IsSortedByStart(p) => renderHighlighted(inputText, p).highlight = highlight

\* C4 amended: the same, for lists whose spans have pairwise distinct starts.
C4_OrderInsensitiveDistinctStarts ==
    rpc = "done" /\ DistinctStarts(given) =>
        \A p \in Arrangements(given) :
            IsSortedByStart(p) => renderHighlighted(inputText, p).highlight = highlight

\* Two spans with different starts were delivered in descending order.
C4_Witness ==
    /\ rpc = "done" /\ Len(given) = 2
    /\ given[1].start > given[2].start
    /\ highlight.mode = "html"

\* The place of the i-th span of a list among its spans ordered by start.
Rank(list, i) == Cardinality({j \in 1..Len(list) : list[j].start < list[i].start}) + 1

\* C5: for in-bounds, pairwise non-overlapping spans every character of the
\* text is emitted once and in order: the escaped text before each span, the
\* span's escaped substring in a highlight with its label, the escaped tail;
\* without markup the output is the escaped text; an empty list shows the
\* whole text unhighlighted.
C5_NonOverlappingCoversTextOnce ==
    rpc = "done" /\ NonOverlapping(given) =>
        IF given = <<>> THEN highlight = TextContent(inputText)
        ELSE LET segs == highlight.segs
             IN /\ highlight.mode = "html"
                /\ Stripped(segs) = Escaped(inputText)
                /\ Cardinality({n \in 1..Len(segs) : IsMark(segs[n])}) = Len(given)
                /\ \A i \in 1..Len(given) :
                      LET n == MarkPos(segs, Rank(given, i))
                      IN /\ segs[n].s = Escaped(slice(inputText, given[i].start, given[i].end))
                         /\ segs[n].label = given[i].label
                         /\ Stripped(SubSeq(segs, 1, n - 1))
                                = Escaped(slice(inputText, 0, given[i].start))

\* Two non-overlapping spans delivered out of order, an escaped ampersand
\* outside them.
C5_Witness ==
    /\ rpc = "done" /\ NonOverlapping(given) /\ Len(given) = 2
    /\ given[1].start > given[2].start
    /\ \E n \in 1..Len(highlight.segs) : highlight.segs[n] = Plain(AMP)

\* C8: overlapping spans are not de-overlapped: every span is emitted as a
\* highlight of its whole substring; text before it is emitted only when the
\* cursor is before its start; the cursor becomes its end even when that moves
\* it backwards, so the tail starts at the end of the last span; characters of
\* an overlap are emitted more than once; spans {0,5} and {3,8} give two
\* highlights of text[0:5] and text[3:8] and the tail from 8.
C8_OverlapsAreNotResolved ==
    rpc = "done" /\ given # <<>> =>
        LET segs == highlight.segs
            n == Len(arr)
        IN /\ highlight.mode = "html"
           /\ IsSortedByStart(arr)
           /\ Cardinality({m \in 1..Len(segs) : IsMark(segs[m])}) = n
           /\ \A k \in 1..n :
                 LET m == MarkPos(segs, k)
                     cur == IF k = 1 THEN 0 ELSE arr[k - 1].end
                 IN /\ segs[m].s = Escaped(slice(inputText, arr[k].start, arr[k].end))
                    /\ segs[m].label = arr[k].label
                    /\ IF cur < arr[k].start
                       THEN m > 1 /\ segs[m - 1] = Plain(Escaped(slice(inputText, cur, arr[k].start)))
                       ELSE m = 1 \/ IsMark(segs[m - 1])
           /\ IF arr[n].end < Len(inputText)
              THEN segs[Len(segs)] = Plain(Escaped(slice(inputText, arr[n].end, Len(inputText))))
              ELSE IsMark(segs[Len(segs)])
           /\ (\E k \in 1..(n - 1) : arr[k].end > arr[k + 1].start)
                 => Len(Stripped(segs)) > Len(Escaped(inputText))
           /\ given = OverlapScenario =>
                 /\ Len(segs) = 3
                 /\ IsMark(segs[1]) /\ segs[1].s = Escaped(slice(inputText, 0, 5))
                 /\ IsMark(segs[2]) /\ segs[2].s = Escaped(slice(inputText, 3, 8))
                 /\ segs[3] = Plain(Escaped(slice(inputText, 8, Len(inputText))))

\* A span inside an earlier one moved the cursor backwards, and a tail follows.
C8_Witness ==
    /\ rpc = "done" /\ Len(arr) = 2
    /\ arr[1].end > arr[2].end
    /\ arr[2].end < Len(inputText)
    /\ highlight.segs[Len(highlight.segs)].kind = "plain"

====
